---- MODULE Spec2Model ----
(***************************************************************************)
(* A model of the Step provisioner of step-issuer                          *)
(* (provisioners/step.go): construction with the optional identity         *)
(* bootstrap (New, createIdentityCertificate), the signing pipeline         *)
(* (Sign) and the certificate request decoder (decodeCSR).                 *)
(*                                                                         *)
(* Byte strings are modelled by their PEM structure: an input is a         *)
(* sequence of segments, each either a run of bytes that is no PEM block   *)
(* or one well-delimited PEM block with a type and a DER body.  The CA and *)
(* the libraries the code calls (encoding/pem, crypto/x509, the CA client) *)
(* are modelled by the outcomes their calls can have.                      *)
(***************************************************************************)
EXTENDS Integers, Sequences, FiniteSets, TLC

(***************************************************************************)
(* Bounds                                                                  *)
(***************************************************************************)
\* longest input, in segments, given to decodeCSR in SpecDecode
MaxSegs == 3
\* number of Sign invocations that may run concurrently on the provisioner
NumSigns == 2
\* most root certificates the CA returns from one root fetch
MaxRoots == 2
\* most entries of each SAN group of a request in SpecExtract
MaxNames == 2
\* the number of callers of the registry, each of which calls Load or Store once
NumCallers == 3

(***************************************************************************)
(* Errors.  A Go error is a record; NoErr is the nil error.                *)
(***************************************************************************)
Err(msg, cause) == [msg |-> msg, cause |-> cause]
NoErr == Err("nil", "")

\* the errors the CA client may return from a call (opaque to this code)
CAErrors == {Err("ca: connection refused", ""), Err("ca: unauthorized", "")}

\* the causes reported by crypto/x509
ParseCause == "asn1: structure error"
SigCause == "crypto/rsa: verification error"

(***************************************************************************)
(* Certificate requests and PEM data                                       *)
(***************************************************************************)
\* the value of a nil *x509.CertificateRequest
NilCSR ==
    [CommonName |-> "", DNSNames |-> <<>>, EmailAddresses |-> <<>>,
     IPAddresses |-> <<>>, URIs |-> <<>>, sigValid |-> FALSE, nil |-> TRUE]

MkCSR(cn, dns, emails, ips, uris, sig) ==
    [CommonName |-> cn, DNSNames |-> dns, EmailAddresses |-> emails,
     IPAddresses |-> ips, URIs |-> uris, sigValid |-> sig, nil |-> FALSE]

LoopbackIP == <<127, 0, 0, 1>>
SpiffeURI == [Scheme |-> "spiffe", Host |-> "cluster.local", Path |-> "/ns/app"]

\* the certificate requests that occur as DER bodies
CSRWeb == MkCSR("example.com", <<"example.com">>, <<>>, <<LoopbackIP>>, <<>>, TRUE)
CSRNoCN == MkCSR("", <<"localhost", "app.example.com">>, <<"a@example.com">>, <<LoopbackIP>>, <<SpiffeURI>>, TRUE)
CSRForged == MkCSR("example.com", <<"example.com">>, <<>>, <<LoopbackIP>>, <<>>, FALSE)

\* DER bodies: an encoded certificate request, or bytes that are no request
DER(parses, csr) == [parses |-> parses, csr |-> csr]
GarbageDER == DER(FALSE, NilCSR)
DERs == {DER(TRUE, CSRWeb), DER(TRUE, CSRNoCN), DER(TRUE, CSRForged), GarbageDER}

\* segments of an input
Junk == [pem |-> FALSE, type |-> "", der |-> GarbageDER]
Block(type, der) == [pem |-> TRUE, type |-> type, der |-> der]
NilBlock == [pem |-> FALSE, type |-> "nil", der |-> GarbageDER]

BlockTypes == {"CERTIFICATE REQUEST", "CERTIFICATE"}
PEMBlocks == {Block(t, d) : t \in BlockTypes, d \in DERs}
Segments == {Junk} \cup PEMBlocks

SeqsUpTo(S, n) == UNION {[1..k -> S] : k \in 0..n}

(***************************************************************************)
(* encoding/pem, crypto/x509 as used by decodeCSR                          *)
(***************************************************************************)
\* index of the first PEM block of data, 0 when there is none
FirstBlock(data) ==
    IF \E k \in 1..Len(data) : data[k].pem
    THEN CHOOSE k \in 1..Len(data) : data[k].pem /\ \A j \in 1..(k-1) : ~data[j].pem
    ELSE 0

\* pem.Decode: the next PEM block of the input and the remainder after it;
\* bytes before the block are skipped; without a block, (nil, data)
pemDecode(data) ==
    LET k == FirstBlock(data) IN
    IF k = 0 THEN [block |-> NilBlock, rest |-> data]
    ELSE [block |-> data[k], rest |-> SubSeq(data, k + 1, Len(data))]

\* x509.ParseCertificateRequest
ParseCertificateRequest(der) ==
    IF der.parses THEN [csr |-> der.csr, err |-> NoErr]
    ELSE [csr |-> NilCSR, err |-> Err(ParseCause, "")]

\* (*x509.CertificateRequest).CheckSignature
CheckSignature(csr) == IF csr.sigValid THEN NoErr ELSE Err(SigCause, "")

ErrUnexpectedPEM == Err("unexpected CSR PEM on sign request", "")
ErrNotRequest == Err("PEM is not a certificate request", "")
ErrParse(cause) == Err("error parsing certificate request: %v", cause.msg)
ErrSignature(cause) == Err("error checking certificate request signature: %v", cause.msg)

\* decodeCSR with the remainder check dropped
decodeCSR_IgnoreRest(data) ==
    LET d == pemDecode(data) IN
    IF d.block = NilBlock THEN [csr |-> NilCSR, err |-> ErrUnexpectedPEM]
    ELSE IF d.block.type # "CERTIFICATE REQUEST" THEN [csr |-> NilCSR, err |-> ErrNotRequest]
    ELSE LET p == ParseCertificateRequest(d.block.der) IN
         IF p.err # NoErr THEN [csr |-> NilCSR, err |-> ErrParse(p.err)]
         ELSE IF CheckSignature(p.csr) # NoErr
              THEN [csr |-> NilCSR, err |-> ErrSignature(CheckSignature(p.csr))]
              ELSE [csr |-> p.csr, err |-> NoErr]

\* decodeCSR with the type check made before the remainder check
decodeCSR_TypeFirst(data) ==
    LET d == pemDecode(data) IN
    IF d.block = NilBlock THEN [csr |-> NilCSR, err |-> ErrUnexpectedPEM]
    ELSE IF d.block.type # "CERTIFICATE REQUEST" THEN [csr |-> NilCSR, err |-> ErrNotRequest]
    ELSE IF Len(d.rest) > 0 THEN [csr |-> NilCSR, err |-> ErrUnexpectedPEM]
    ELSE LET p == ParseCertificateRequest(d.block.der) IN
         IF p.err # NoErr THEN [csr |-> NilCSR, err |-> ErrParse(p.err)]
         ELSE IF CheckSignature(p.csr) # NoErr
              THEN [csr |-> NilCSR, err |-> ErrSignature(CheckSignature(p.csr))]
              ELSE [csr |-> p.csr, err |-> NoErr]

\* decodeCSR
decodeCSR(data) ==
    LET d == pemDecode(data) IN
    IF d.block = NilBlock \/ Len(d.rest) > 0
    THEN [csr |-> NilCSR, err |-> ErrUnexpectedPEM]
    ELSE IF d.block.type # "CERTIFICATE REQUEST"
    THEN [csr |-> NilCSR, err |-> ErrNotRequest]
    ELSE LET p == ParseCertificateRequest(d.block.der) IN
         IF p.err # NoErr THEN [csr |-> NilCSR, err |-> ErrParse(p.err)]
         ELSE IF CheckSignature(p.csr) # NoErr
              THEN [csr |-> NilCSR, err |-> ErrSignature(CheckSignature(p.csr))]
              ELSE [csr |-> p.csr, err |-> NoErr]

(***************************************************************************)
(* Subject and SANs (Sign, lines 120-132) and the certificate encoder      *)
(***************************************************************************)
\* net.IP.String for an IPv4 address given by its four bytes
ipString(ip) ==
    ToString(ip[1]) \o "." \o ToString(ip[2]) \o "." \o ToString(ip[3]) \o "." \o ToString(ip[4])

\* url.URL.String for a URL with a scheme, a host and a path
uriString(u) == u.Scheme \o "://" \o u.Host \o u.Path

\* the loops of Sign over csr.IPAddresses and csr.URIs
ipStrings(ips) == [k \in 1..Len(ips) |-> ipString(ips[k])]
uriStrings(uris) == [k \in 1..Len(uris) |-> uriString(uris[k])]

\* the SAN sequence with the e-mail addresses put before the DNS names
sansOf_EmailsFirst(csr) ==
    csr.EmailAddresses \o csr.DNSNames \o ipStrings(csr.IPAddresses)
        \o uriStrings(csr.URIs)

\* the SAN sequence Sign builds from the request
sansOf(csr) ==
    csr.DNSNames \o csr.EmailAddresses \o ipStrings(csr.IPAddresses)
        \o uriStrings(csr.URIs)

\* generateSubject without the preference for a name that is no loopback name
generateSubject_First(sans) ==
    IF Len(sans) = 0 THEN "step-issuer-certificate" ELSE sans[1]

\* generateSubject
generateSubject(sans) ==
    IF Len(sans) = 0 THEN "step-issuer-certificate"
    ELSE IF \E k \in 1..Len(sans) : sans[k] # "127.0.0.1" /\ sans[k] # "localhost"
    THEN sans[CHOOSE k \in 1..Len(sans) :
                 /\ sans[k] # "127.0.0.1" /\ sans[k] # "localhost"
                 /\ \A j \in 1..(k-1) : ~(sans[j] # "127.0.0.1" /\ sans[j] # "localhost")]
    ELSE sans[1]

\* the subject Sign passes to the token request
subjectOf(csr) ==
    IF csr.CommonName = "" THEN generateSubject(sansOf(csr)) ELSE csr.CommonName

\* encodeX509: one PEM block of type CERTIFICATE holding the raw bytes
encodeX509(cert) == <<[pem |-> TRUE, type |-> "CERTIFICATE", der |-> cert.Raw]>>

RECURSIVE encodeAll(_)
\* the loop of Sign over roots.Certificates
encodeAll(certs) ==
    IF Len(certs) = 0 THEN <<>>
    ELSE encodeX509(Head(certs)) \o encodeAll(Tail(certs))

(***************************************************************************)
(* Inputs of New and Sign, and what the CA answers                         *)
(***************************************************************************)
\* the issuers New is given (iss.Name, iss.Namespace, iss.Spec.CABundle)
Issuers ==
    {[Name |-> "step-issuer", Namespace |-> "default", CABundle |-> <<>>],
     [Name |-> "internal-ca", Namespace |-> "pki", CABundle |-> <<"ca.pem">>]}

\* cr.Spec.Request: the request bytes given to Sign
SignRequests ==
    {<<>>,
     <<Block("CERTIFICATE REQUEST", DER(TRUE, CSRWeb))>>,
     <<Block("CERTIFICATE REQUEST", DER(TRUE, CSRNoCN))>>,
     <<Junk, Block("CERTIFICATE REQUEST", DER(TRUE, CSRWeb))>>,
     <<Block("CERTIFICATE REQUEST", DER(TRUE, CSRWeb)), Junk>>,
     <<Block("CERTIFICATE", DER(TRUE, CSRWeb))>>,
     <<Block("CERTIFICATE REQUEST", GarbageDER)>>,
     <<Block("CERTIFICATE REQUEST", DER(TRUE, CSRForged))>>}

\* the requests given to the concurrent Sign invocations of Spec
ConcRequests ==
    {<<>>,
     <<Block("CERTIFICATE REQUEST", DER(TRUE, CSRWeb))>>,
     <<Block("CERTIFICATE REQUEST", DER(TRUE, CSRNoCN))>>}

\* cr.Spec.Duration: nil, or a duration in hours
NilDuration == [nil |-> TRUE, Duration |-> 0]
Durations ==
    {NilDuration, [nil |-> FALSE, Duration |-> 24], [nil |-> FALSE, Duration |-> 0]}

\* capi.TimeDuration: its zero value, and SetDuration
ZeroTimeDuration == [t |-> 0, d |-> 0]
SetDuration(td, d) == [td EXCEPT !.d = d]

\* certificates are known by their raw bytes
Cert(raw) == [Raw |-> raw]
NilCert == Cert("")
RootCert(k) == Cert("root-" \o ToString(k))
IntermediateCert == Cert("intermediate")
LeafCert(tok) == Cert("leaf-" \o ToString(tok.jti))

\* the root certificates of a CA that has k of them, in the CA's order
RootsOf(k) == [j \in 1..k |-> RootCert(j)]

\* a one-time token: its identifier (jti), subject and SANs
NilToken == [jti |-> 0, sub |-> "", sans |-> <<>>]
Token(j, subject, sans) == [jti |-> j, sub |-> subject, sans |-> sans]

\* the transport of the CA client: as built by ca.NewProvisioner, and as
\* derived by Client.Transport from a sign response and a private key
DefaultTransport(iss) == [kind |-> "tls", bundle |-> iss.CABundle, cert |-> NilCert, key |-> ""]
IdentityTransport(tr, resp, pk) == [tr EXCEPT !.kind = "mtls", !.cert = resp.ServerPEM, !.key = pk]

NilStep == [nil |-> TRUE, name |-> "", transport |-> DefaultTransport([CABundle |-> <<>>])]
NilSignResponse == [ServerPEM |-> NilCert, CaPEM |-> NilCert]
SignResponse(tok) == [ServerPEM |-> LeafCert(tok), CaPEM |-> IntermediateCert]

Callers == {0} \cup (1..NumSigns)
SignIds == 1..NumSigns
\* New is caller 0 of the CA
NewId == 0

(***************************************************************************)
(* State                                                                   *)
(***************************************************************************)
VARIABLES
    caRequireClientAuth, \* the CA's configuration: client authentication mandatory
    caRoots,             \* the CA's configuration: its root certificates, in order
    caFailure,           \* the error the CA client reports for a call that fails
    caLog,               \* per caller, the calls it made to the CA client, in order
    jti,                 \* the number of tokens minted so far
    newPc,               \* position of New
    newIss,              \* iss given to New
    step,                \* the Step object p built by New (name, client transport)
    boot,                \* locals of createIdentityCertificate (csr, pk, token, resp)
    bootstrap,           \* state of the identity bootstrap
    newRet,              \* what New returned: (p non-nil, err)
    signPc,              \* position of each Sign invocation
    signCr,              \* cr given to each Sign invocation
    ctxDone,             \* whether the ctx given to each Sign invocation is cancelled
    signLocals,          \* locals of each Sign invocation
    signRet,             \* what each Sign invocation returned
    dData,               \* SpecDecode: the bytes given to decodeCSR
    dOut,                \* SpecDecode: what decodeCSR returned
    xCsr,                \* SpecExtract: the validated request Sign extracts from
    xOut,                \* SpecExtract: the SANs and the subject Sign derived
    collection,          \* the registry: per identifier, the entry of the sync.Map
    regCall,             \* per caller of the registry, its call of Load or Store
    regClock             \* the number of calls and returns of Load and Store so far

vars ==
    <<caRequireClientAuth, caRoots, caFailure, caLog, jti, newPc, newIss, step, boot, bootstrap, newRet,
      signPc, signCr, ctxDone, signLocals, signRet, dData, dOut,
      xCsr, xOut, collection, regCall, regClock>>

newVars == <<newPc, newIss, step, boot, bootstrap, newRet>>
signVars == <<signPc, signCr, signLocals, signRet>>
extractVars == <<xCsr, xOut>>
registryVars == <<collection, regCall, regClock>>
decodeVars == <<dData, dOut, extractVars, registryVars>>
caVars == <<caRequireClientAuth, caRoots, caFailure>>

\* the outcomes of one call to the CA client: nil, or the CA's failure
CallErrors == {NoErr, caFailure}

NilBoot == [csr |-> NilCSR, pk |-> "", token |-> NilToken, resp |-> NilSignResponse]
NilNewRet == [returned |-> FALSE, p |-> FALSE, err |-> NoErr]
NilCr == [Request |-> <<>>, Duration |-> NilDuration]
NilLocals ==
    [caPem |-> <<>>, csr |-> NilCSR, sans |-> <<>>, subject |-> "", token |-> NilToken]
NilSignRet == [certPem |-> <<>>, caPem |-> <<>>, err |-> NoErr]
NilDecodeOut == [called |-> FALSE, csr |-> NilCSR, err |-> NoErr]
NilExtractOut == [called |-> FALSE, sans |-> <<>>, subject |-> ""]

\* the identifiers (types.NamespacedName) and the provisioners (*Step) given
\* to the registry; a nil *Step can be stored like any other
RegistryIds ==
    {[Namespace |-> "default", Name |-> "issuer-a"],
     [Namespace |-> "default", Name |-> "issuer-b"]}
NilStepPtr == "nil"
StepPtrs == {NilStepPtr, "step-1"}
RegCallers == 1..NumCallers

\* an identifier without entry in the sync.Map, and the entry holding v
Absent == [ok |-> FALSE, v |-> NilStepPtr]
Entry(v) == [ok |-> TRUE, v |-> v]

\* a caller that has not called the registry
IdleCall ==
    [pc |-> "idle", op |-> "", id |-> [Namespace |-> "", Name |-> ""], p |-> NilStepPtr,
     v |-> Absent, ret |-> [p |-> NilStepPtr, found |-> FALSE], tInv |-> 0, tRet |-> 0]

\* the registry while it is not used
IdleRegistry ==
    /\ collection = [id \in RegistryIds |-> Absent]
    /\ regCall = [c \in RegCallers |-> IdleCall]
    /\ regClock = 0

\* the variables of SpecExtract while it does not run
IdleExtract ==
    /\ xCsr = NilCSR
    /\ xOut = NilExtractOut
    /\ IdleRegistry

InitMain(Isss) ==
    /\ caLog = [c \in Callers |-> <<>>]
    /\ jti = 0
    /\ newPc = "idle"
    /\ newIss \in Isss
    /\ step = NilStep
    /\ boot = NilBoot
    /\ bootstrap = "Unauthenticated"
    /\ newRet = NilNewRet
    /\ signPc = [i \in SignIds |-> "idle"]
    /\ signCr = [i \in SignIds |-> NilCr]
    /\ ctxDone = [i \in SignIds |-> FALSE]
    /\ signLocals = [i \in SignIds |-> NilLocals]
    /\ signRet = [i \in SignIds |-> NilSignRet]

InitCA(Failures, RootCounts) ==
    /\ caRequireClientAuth \in BOOLEAN
    /\ caRoots \in {RootsOf(k) : k \in RootCounts}
    /\ caFailure \in Failures

\* the issuer and the CA failure of the concurrent runs of Spec, whose CA has
\* no root or MaxRoots roots
ConcIssuer == [Name |-> "step-issuer", Namespace |-> "default", CABundle |-> <<>>]
ConcFailure == Err("ca: connection refused", "")

Init ==
    /\ InitCA({ConcFailure}, {0, MaxRoots})
    /\ InitMain({ConcIssuer})
    /\ dData = <<>>
    /\ dOut = NilDecodeOut
    /\ IdleExtract

\* a call appended to the caller's log
Logged(c, call) == caLog' = [caLog EXCEPT ![c] = Append(@, call)]

\* the positions in caller c's log of its calls of one kind
CallsOf(c, op) == {k \in DOMAIN caLog[c] : caLog[c][k].op = op}
OkCallsOf(c, op) == {k \in CallsOf(c, op) : caLog[c][k].err = NoErr}
FailedCalls(c) == {k \in DOMAIN caLog[c] : caLog[c][k].err # NoErr}

(***************************************************************************)
(* New and createIdentityCertificate                                       *)
(***************************************************************************)
\* the Step object New builds
NewStep(iss) ==
    [nil |-> FALSE, name |-> iss.Name \o "." \o iss.Namespace,
     transport |-> DefaultTransport(iss)]

\* what provisioner.Version() may answer
VersionResponses ==
    {[RequireClientAuthentication |-> FALSE, err |-> caFailure],
     [RequireClientAuthentication |-> caRequireClientAuth, err |-> NoErr]}

\* what provisioner.Roots() may answer
RootsResponses ==
    {[Certificates |-> <<>>, err |-> caFailure],
     [Certificates |-> caRoots, err |-> NoErr]}

\* New's test with the test of the version error inverted
NeedsIdentity_OnError(v) == v.err # NoErr \/ v.RequireClientAuthentication

\* New's test for requesting the identity certificate
NeedsIdentity(v) == v.err = NoErr /\ v.RequireClientAuthentication

\* New's return with the bootstrap error dropped
NewAfterIdentity_Ignore(err) == [returned |-> TRUE, p |-> TRUE, err |-> NoErr]

\* New's return after createIdentityCertificate returned err
NewAfterIdentity(err) ==
    IF err # NoErr THEN [returned |-> TRUE, p |-> FALSE, err |-> err]
    ELSE [returned |-> TRUE, p |-> TRUE, err |-> NoErr]

\* SetTransport that leaves the client's transport as it was
SetTransport_Noop(s, tr) == s

\* s.provisioner.Client.SetTransport(tr)
SetTransport(s, tr) == [s EXCEPT !.transport = tr]

\* ca.CreateCertificateRequest(commonName)
CreateCertificateRequest(name) ==
    [csr |-> MkCSR(name, <<name>>, <<>>, <<>>, <<>>, TRUE), pk |-> "key-of-" \o name]

ErrKeyGen == Err("error generating key", "")
ErrTransport == Err("error building transport", "")

\* New up to the construction of p: ca.NewProvisioner fails or p is built
NewStart ==
    /\ newPc = "idle"
    /\ \E e \in CallErrors :
         IF e # NoErr
         THEN /\ newRet' = [returned |-> TRUE, p |-> FALSE, err |-> e]
              /\ newPc' = "done"
              /\ step' = step
         ELSE /\ step' = NewStep(newIss)
              /\ newPc' = "version"
              /\ newRet' = newRet
    /\ UNCHANGED <<caVars, caLog, jti, newIss, boot, bootstrap,
                   signVars, ctxDone, decodeVars>>

\* New: the version request, and the return when no identity is needed
NewVersion ==
    /\ newPc = "version"
    /\ \E v \in VersionResponses :
         /\ Logged(NewId, [op |-> "version", transport |-> step.transport, err |-> v.err])
         /\ IF NeedsIdentity(v)
            THEN /\ bootstrap' = "Bootstrapping"
                 /\ newPc' = "bootCSR"
                 /\ newRet' = newRet
            ELSE /\ newRet' = [returned |-> TRUE, p |-> TRUE, err |-> NoErr]
                 /\ newPc' = "done"
                 /\ bootstrap' = bootstrap
    /\ UNCHANGED <<caVars, jti, newIss, step, boot, signVars, ctxDone,
                   decodeVars>>

\* createIdentityCertificate starts over after an error instead of returning
BootFail_Retry(err) ==
    /\ bootstrap' = bootstrap
    /\ newRet' = newRet
    /\ newPc' = "bootCSR"

\* createIdentityCertificate returns err, and New returns
BootFail(err) ==
    /\ bootstrap' = "BootstrapFailed"
    /\ newRet' = NewAfterIdentity(err)
    /\ newPc' = "done"

\* createIdentityCertificate: key pair and certificate request for s.name
BootCSR ==
    /\ newPc = "bootCSR"
    /\ \/ /\ boot' = [boot EXCEPT !.csr = CreateCertificateRequest(step.name).csr,
                                  !.pk = CreateCertificateRequest(step.name).pk]
          /\ newPc' = "bootToken"
          /\ UNCHANGED <<bootstrap, newRet>>
       \/ /\ BootFail(ErrKeyGen)
          /\ boot' = boot
    /\ UNCHANGED <<caVars, caLog, jti, newIss, step, signVars, ctxDone,
                   decodeVars>>

\* createIdentityCertificate: the token for s.name, without SANs
BootToken ==
    /\ newPc = "bootToken"
    /\ \E e \in CallErrors :
         LET tok == IF e = NoErr THEN Token(jti + 1, step.name, <<>>) ELSE NilToken IN
         /\ Logged(NewId, [op |-> "token", transport |-> step.transport, err |-> e,
                           subject |-> step.name, sans |-> <<>>, token |-> tok])
         /\ IF e = NoErr
            THEN /\ boot' = [boot EXCEPT !.token = tok]
                 /\ jti' = jti + 1
                 /\ newPc' = "bootSign"
                 /\ UNCHANGED <<bootstrap, newRet>>
            ELSE /\ BootFail(e)
                 /\ UNCHANGED <<boot, jti>>
    /\ UNCHANGED <<caVars, newIss, step, signVars, ctxDone, decodeVars>>

\* createIdentityCertificate: the sign request for the own certificate request
BootSign ==
    /\ newPc = "bootSign"
    /\ \E e \in CallErrors :
         LET resp == IF e = NoErr THEN SignResponse(boot.token) ELSE NilSignResponse IN
         /\ Logged(NewId, [op |-> "sign", transport |-> step.transport, err |-> e,
                           csr |-> boot.csr, ott |-> boot.token,
                           notAfter |-> ZeroTimeDuration, resp |-> resp])
         /\ IF e = NoErr
            THEN /\ boot' = [boot EXCEPT !.resp = resp]
                 /\ newPc' = "bootTransport"
                 /\ UNCHANGED <<bootstrap, newRet>>
            ELSE /\ BootFail(e)
                 /\ boot' = boot
    /\ UNCHANGED <<caVars, jti, newIss, step, signVars, ctxDone, decodeVars>>

\* createIdentityCertificate: the transport is derived and installed, and
\* New returns p; or the derivation fails
BootTransport ==
    /\ newPc = "bootTransport"
    /\ \/ /\ step' = SetTransport(step, IdentityTransport(step.transport, boot.resp, boot.pk))
          /\ bootstrap' = "Authenticated"
          /\ newRet' = NewAfterIdentity(NoErr)
          /\ newPc' = "done"
       \/ /\ BootFail(ErrTransport)
          /\ step' = step
    /\ UNCHANGED <<caVars, caLog, jti, newIss, boot, signVars, ctxDone,
                   decodeVars>>

(***************************************************************************)
(* Sign                                                                    *)
(***************************************************************************)
\* an error return of Sign that keeps the encoded roots
FailSign_Partial(l, err) == [certPem |-> <<>>, caPem |-> l.caPem, err |-> err]

\* an error return of Sign that wraps the error
FailSign_Wrap(l, err) == [certPem |-> <<>>, caPem |-> <<>>, err |-> Err("sign failed: %v", err.msg)]

\* return nil, nil, err
FailSign(l, err) == [certPem |-> <<>>, caPem |-> <<>>, err |-> err]

\* a Sign that begins by putting the default transport back on the client
SignStart_ResetTransport(i, Requests, Durs) ==
    /\ signPc[i] = "idle"
    /\ newRet.returned /\ newRet.p
    /\ \E req \in Requests, d \in Durs :
         signCr' = [signCr EXCEPT ![i] = [Request |-> req, Duration |-> d]]
    /\ signPc' = [signPc EXCEPT ![i] = "roots"]
    /\ step' = SetTransport(step, DefaultTransport(newIss))
    /\ UNCHANGED <<caVars, caLog, jti, newPc, newIss, boot, bootstrap, newRet,
                   ctxDone, signLocals, signRet, decodeVars>>

\* Sign is called on the provisioner New returned, with a request and a context
SignStart(i, Requests, Durs) ==
    /\ signPc[i] = "idle"
    /\ newRet.returned /\ newRet.p
    /\ \E req \in Requests, d \in Durs :
         signCr' = [signCr EXCEPT ![i] = [Request |-> req, Duration |-> d]]
    /\ signPc' = [signPc EXCEPT ![i] = "roots"]
    /\ UNCHANGED <<caVars, caLog, jti, newVars, ctxDone, signLocals, signRet,
                   decodeVars>>

\* Sign: the root fetch and the encoding of the roots
SignRoots(i) ==
    /\ signPc[i] = "roots"
    /\ \E r \in RootsResponses :
         /\ Logged(i, [op |-> "roots", transport |-> step.transport, err |-> r.err,
                       roots |-> r.Certificates])
         /\ IF r.err # NoErr
            THEN /\ signRet' = [signRet EXCEPT ![i] = FailSign(signLocals[i], r.err)]
                 /\ signPc' = [signPc EXCEPT ![i] = "done"]
                 /\ signLocals' = signLocals
            ELSE /\ signLocals' = [signLocals EXCEPT ![i].caPem = encodeAll(r.Certificates)]
                 /\ signPc' = [signPc EXCEPT ![i] = "decode"]
                 /\ signRet' = signRet
    /\ UNCHANGED <<caVars, jti, newVars, signCr, ctxDone, decodeVars>>

\* a Sign that goes on to the token request whatever decodeCSR returned
SignDecode_Lenient(i) ==
    /\ signPc[i] = "decode"
    /\ LET d == decodeCSR(signCr[i].Request) IN
       signLocals' = [signLocals EXCEPT ![i].csr = d.csr,
                                        ![i].sans = sansOf(d.csr),
                                        ![i].subject = subjectOf(d.csr)]
    /\ signPc' = [signPc EXCEPT ![i] = "token"]
    /\ UNCHANGED <<caVars, caLog, jti, newVars, signCr, ctxDone, signRet, decodeVars>>

\* Sign: the request is decoded and checked, SANs and subject are derived
SignDecode(i) ==
    /\ signPc[i] = "decode"
    /\ LET d == decodeCSR(signCr[i].Request) IN
       IF d.err # NoErr
       THEN /\ signRet' = [signRet EXCEPT ![i] = FailSign(signLocals[i], d.err)]
            /\ signPc' = [signPc EXCEPT ![i] = "done"]
            /\ signLocals' = signLocals
       ELSE /\ signLocals' = [signLocals EXCEPT ![i].csr = d.csr,
                                                ![i].sans = sansOf(d.csr),
                                                ![i].subject = subjectOf(d.csr)]
            /\ signPc' = [signPc EXCEPT ![i] = "token"]
            /\ signRet' = signRet
    /\ UNCHANGED <<caVars, caLog, jti, newVars, signCr, ctxDone, decodeVars>>

\* Sign: the token request for the subject and the SANs
SignToken(i) ==
    /\ signPc[i] = "token"
    /\ \E e \in CallErrors :
         LET l == signLocals[i]
             tok == IF e = NoErr THEN Token(jti + 1, l.subject, l.sans) ELSE NilToken IN
         /\ Logged(i, [op |-> "token", transport |-> step.transport, err |-> e,
                       subject |-> l.subject, sans |-> l.sans, token |-> tok])
         /\ IF e # NoErr
            THEN /\ signRet' = [signRet EXCEPT ![i] = FailSign(l, e)]
                 /\ signPc' = [signPc EXCEPT ![i] = "done"]
                 /\ UNCHANGED <<signLocals, jti>>
            ELSE /\ signLocals' = [signLocals EXCEPT ![i].token = tok]
                 /\ jti' = jti + 1
                 /\ signPc' = [signPc EXCEPT ![i] = "sign"]
                 /\ signRet' = signRet
    /\ UNCHANGED <<caVars, newVars, signCr, ctxDone, decodeVars>>

\* the not-after field left at its zero value whatever the request asks
notAfterOf_Ignore(cr) == ZeroTimeDuration

\* the not-after field of the sign request
notAfterOf(cr) ==
    IF cr.Duration.nil THEN ZeroTimeDuration
    ELSE SetDuration(ZeroTimeDuration, cr.Duration.Duration)

\* the tokens caller c was given, and the tokens minted so far by any caller
Minted(c) == {caLog[c][k].token : k \in OkCallsOf(c, "token")}
AllMinted == UNION {Minted(c) : c \in Callers}

\* a sign request that carries the token minted last on this provisioner,
\* as if the token were kept in a field shared by the invocations
SignRequestOf_Shared(i) ==
    [CsrPEM |-> signLocals[i].csr,
     OTT |-> CHOOSE t \in AllMinted : t.jti = jti,
     NotAfter |-> notAfterOf(signCr[i])]

\* the capi.SignRequest Sign sends
SignRequestOf(i) ==
    [CsrPEM |-> signLocals[i].csr, OTT |-> signLocals[i].token,
     NotAfter |-> notAfterOf(signCr[i])]

\* the chain with the intermediate certificate put first
chainPemOf_CaFirst(resp) == encodeX509(resp.CaPEM) \o encodeX509(resp.ServerPEM)

\* the certificate chain Sign returns: the leaf, then the intermediate
chainPemOf(resp) == encodeX509(resp.ServerPEM) \o encodeX509(resp.CaPEM)

\* Sign: the sign request, and the encoding of the chain
SignSign(i) ==
    /\ signPc[i] = "sign"
    /\ \E e \in CallErrors :
         LET l == signLocals[i]
             req == SignRequestOf(i)
             resp == IF e = NoErr THEN SignResponse(req.OTT) ELSE NilSignResponse IN
         /\ Logged(i, [op |-> "sign", transport |-> step.transport, err |-> e,
                       csr |-> req.CsrPEM, ott |-> req.OTT,
                       notAfter |-> req.NotAfter, resp |-> resp])
         /\ signRet' = [signRet EXCEPT ![i] =
                IF e # NoErr THEN FailSign(l, e)
                ELSE [certPem |-> chainPemOf(resp),
                      caPem |-> l.caPem, err |-> NoErr]]
         /\ signPc' = [signPc EXCEPT ![i] = "done"]
    /\ UNCHANGED <<caVars, jti, newVars, signCr, ctxDone, signLocals,
                   decodeVars>>

\* the caller of Sign cancels the context it passed
Cancel(i) ==
    /\ signPc[i] \notin {"idle", "done"}
    /\ ~ctxDone[i]
    /\ ctxDone' = [ctxDone EXCEPT ![i] = TRUE]
    /\ UNCHANGED <<caVars, caLog, jti, newVars, signVars, decodeVars>>

Next ==
    \/ NewStart
    \/ NewVersion
    \/ BootCSR
    \/ BootToken
    \/ BootSign
    \/ BootTransport
    \/ \E i \in SignIds : SignStart(i, ConcRequests, {NilDuration})
    \/ \E i \in SignIds : SignRoots(i)
    \/ \E i \in SignIds : SignDecode(i)
    \/ \E i \in SignIds : SignToken(i)
    \/ \E i \in SignIds : SignSign(i)
    \/ \E i \in SignIds : Cancel(i)

Spec == Init /\ [][Next]_vars

\* one Sign invocation after New, over every request and duration
NextOne ==
    \/ NewStart
    \/ NewVersion
    \/ BootCSR
    \/ BootToken
    \/ BootSign
    \/ BootTransport
    \/ SignStart(1, SignRequests, Durations)
    \/ SignRoots(1)
    \/ SignDecode(1)
    \/ SignToken(1)
    \/ SignSign(1)
    \/ Cancel(1)

InitOne ==
    /\ InitCA(CAErrors, 0..MaxRoots)
    /\ InitMain(Issuers)
    /\ dData = <<>>
    /\ dOut = NilDecodeOut
    /\ IdleExtract

SpecOne == InitOne /\ [][NextOne]_vars

\* New on its own; every call New makes to the CA returns, so New takes its
\* next step whenever it has one
NextBoot ==
    \/ NewStart
    \/ NewVersion
    \/ BootCSR
    \/ BootToken
    \/ BootSign
    \/ BootTransport

SpecBoot == InitOne /\ [][NextBoot]_vars /\ WF_vars(NextBoot)

(***************************************************************************)
(* decodeCSR on its own, over every input of at most MaxSegs segments      *)
(***************************************************************************)
InitDecode ==
    /\ caRequireClientAuth = FALSE
    /\ caRoots = <<>>
    /\ caFailure = ConcFailure
    /\ InitMain({ConcIssuer})
    /\ dData \in SeqsUpTo(Segments, MaxSegs)
    /\ dOut = NilDecodeOut
    /\ IdleExtract

Decode ==
    /\ ~dOut.called
    /\ dOut' = [called |-> TRUE, csr |-> decodeCSR(dData).csr, err |-> decodeCSR(dData).err]
    /\ UNCHANGED <<caVars, caLog, jti, newVars, signVars, ctxDone, dData, extractVars,
                   registryVars>>

NextDecode == Decode

SpecDecode == InitDecode /\ [][NextDecode]_vars

(***************************************************************************)
(* SAN and subject extraction on its own, over requests whose SAN groups    *)
(* have at most MaxNames entries                                           *)
(***************************************************************************)
PrivateIP == <<10, 0, 0, 7>>
HttpsURI == [Scheme |-> "https", Host |-> "app.example.com", Path |-> "/id"]

\* the validated requests given to the extraction
ExtractCSRs ==
    {MkCSR(cn, dns, emails, ips, uris, TRUE) :
        cn \in {"", "example.com"},
        dns \in SeqsUpTo({"localhost", "127.0.0.1", "app.example.com"}, MaxNames),
        emails \in SeqsUpTo({"a@example.com"}, MaxNames),
        ips \in SeqsUpTo({LoopbackIP, PrivateIP}, MaxNames),
        uris \in SeqsUpTo({SpiffeURI, HttpsURI}, 1)}

InitExtract ==
    /\ caRequireClientAuth = FALSE
    /\ caRoots = <<>>
    /\ caFailure = ConcFailure
    /\ InitMain({ConcIssuer})
    /\ dData = <<>>
    /\ dOut = NilDecodeOut
    /\ xCsr \in ExtractCSRs
    /\ xOut = NilExtractOut
    /\ IdleRegistry

\* lines 120-132 of Sign applied to the request
Extract ==
    /\ ~xOut.called
    /\ xOut' = [called |-> TRUE, sans |-> sansOf(xCsr), subject |-> subjectOf(xCsr)]
    /\ UNCHANGED <<caVars, caLog, jti, newVars, signVars, ctxDone, dData, dOut, xCsr,
                   registryVars>>

NextExtract == Extract

SpecExtract == InitExtract /\ [][NextExtract]_vars

(***************************************************************************)
(* The registry: Load and Store called concurrently. A call is three steps: *)
(* the call, the operation of the sync.Map, and the return.                 *)
(***************************************************************************)
\* a Store that replaces the whole map by the one entry
mapStore_Fresh(m, id, p) == [k \in RegistryIds |-> IF k = id THEN Entry(p) ELSE Absent]

\* collection.Store(namespacedName, provisioner)
mapStore(m, id, p) == [m EXCEPT ![id] = Entry(p)]

\* collection.Load(namespacedName)
mapLoad(m, id) == m[id]

\* what Load returns for the entry the sync.Map gave it
LoadReturnOf(e) ==
    IF ~e.ok THEN [p |-> NilStepPtr, found |-> FALSE]
    ELSE [p |-> e.v, found |-> TRUE]

InitRegistry ==
    /\ caRequireClientAuth = FALSE
    /\ caRoots = <<>>
    /\ caFailure = ConcFailure
    /\ InitMain({ConcIssuer})
    /\ dData = <<>>
    /\ dOut = NilDecodeOut
    /\ IdleExtract

RegFrame ==
    UNCHANGED <<caVars, caLog, jti, newVars, signVars, ctxDone, dData, dOut, extractVars>>

\* the callers are numbered in the order in which they call the registry
CallsInOrder(c) == \A d \in RegCallers : d < c => regCall[d].pc # "idle"

\* a caller calls Store(namespacedName, provisioner)
StoreCall(c) ==
    /\ regCall[c].pc = "idle"
    /\ CallsInOrder(c)
    /\ \E id \in RegistryIds, p \in StepPtrs :
         regCall' = [regCall EXCEPT ![c].pc = "called", ![c].op = "Store",
                                    ![c].id = id, ![c].p = p,
                                    ![c].tInv = regClock + 1]
    /\ regClock' = regClock + 1
    /\ collection' = collection
    /\ RegFrame

\* Store: the sync.Map takes the entry
StoreMap(c) ==
    /\ regCall[c].pc = "called"
    /\ regCall[c].op = "Store"
    /\ collection' = mapStore(collection, regCall[c].id, regCall[c].p)
    /\ regCall' = [regCall EXCEPT ![c].pc = "mapped"]
    /\ regClock' = regClock
    /\ RegFrame

\* Store returns
StoreReturn(c) ==
    /\ regCall[c].pc = "mapped"
    /\ regCall[c].op = "Store"
    /\ regCall' = [regCall EXCEPT ![c].pc = "done", ![c].tRet = regClock + 1]
    /\ regClock' = regClock + 1
    /\ collection' = collection
    /\ RegFrame

\* a caller calls Load(namespacedName)
LoadCall(c) ==
    /\ regCall[c].pc = "idle"
    /\ CallsInOrder(c)
    /\ \E id \in RegistryIds :
         regCall' = [regCall EXCEPT ![c].pc = "called", ![c].op = "Load",
                                    ![c].id = id, ![c].tInv = regClock + 1]
    /\ regClock' = regClock + 1
    /\ collection' = collection
    /\ RegFrame

\* Load: the sync.Map is read
LoadMap(c) ==
    /\ regCall[c].pc = "called"
    /\ regCall[c].op = "Load"
    /\ regCall' = [regCall EXCEPT ![c].pc = "mapped",
                                   ![c].v = mapLoad(collection, regCall[c].id)]
    /\ UNCHANGED <<collection, regClock>>
    /\ RegFrame

\* Load returns nil and false, or the provisioner and true
LoadReturn(c) ==
    /\ regCall[c].pc = "mapped"
    /\ regCall[c].op = "Load"
    /\ regCall' = [regCall EXCEPT ![c].pc = "done", ![c].ret = LoadReturnOf(regCall[c].v),
                                   ![c].tRet = regClock + 1]
    /\ regClock' = regClock + 1
    /\ collection' = collection
    /\ RegFrame

NextRegistry ==
    \/ \E c \in RegCallers : StoreCall(c)
    \/ \E c \in RegCallers : StoreMap(c)
    \/ \E c \in RegCallers : StoreReturn(c)
    \/ \E c \in RegCallers : LoadCall(c)
    \/ \E c \in RegCallers : LoadMap(c)
    \/ \E c \in RegCallers : LoadReturn(c)

SpecRegistry == InitRegistry /\ [][NextRegistry]_vars

(***************************************************************************)
(* Properties                                                              *)
(***************************************************************************)

\* the input is one PEM block and nothing after it
OneBlockNoTrailer(data) ==
    /\ Len(data) > 0
    /\ data[Len(data)].pem
    /\ Cardinality({k \in 1..Len(data) : data[k].pem}) = 1

\* a request the decoder must accept: one PEM block with nothing after it, of
\* type CERTIFICATE REQUEST, holding a parseable request with a valid signature
WellFormedRequest(data) ==
    /\ OneBlockNoTrailer(data)
    /\ data[Len(data)].type = "CERTIFICATE REQUEST"
    /\ data[Len(data)].der.parses
    /\ data[Len(data)].der.csr.sigValid

\* C1: Sign is all-or-nothing: it returns without error only if the root
\* fetch, the decoding and validation of the request, the token request and
\* the sign request of the invocation all succeeded; if one of them fails it
\* returns an error and both byte sequences are empty.
C1_AllOrNothing ==
    \A i \in SignIds :
        signPc[i] = "done" =>
            /\ signRet[i].err = NoErr =>
                  /\ OkCallsOf(i, "roots") # {}
                  /\ WellFormedRequest(signCr[i].Request)
                  /\ OkCallsOf(i, "token") # {}
                  /\ OkCallsOf(i, "sign") # {}
            /\ (FailedCalls(i) # {} \/ ~WellFormedRequest(signCr[i].Request)) =>
                  signRet[i].err # NoErr
            /\ signRet[i].err # NoErr =>
                  signRet[i].certPem = <<>> /\ signRet[i].caPem = <<>>

\* C1 witness: the sign call fails after the roots were fetched and encoded
C1_Witness ==
    \E i \in SignIds :
        /\ signPc[i] = "done"
        /\ signLocals[i].caPem # <<>>
        /\ CallsOf(i, "sign") # {}
        /\ signRet[i].err # NoErr

\* C2: a failed identity bootstrap fails closed: New returns an error and no
\* provisioner, the identity transport is not installed, and no Sign
\* invocation ever runs on the provisioner.
C2_BootstrapFailsClosed ==
    (bootstrap = "BootstrapFailed"
        \/ (newRet.returned /\ \E k \in FailedCalls(NewId) : caLog[NewId][k].op # "version"))
    =>
        /\ caRequireClientAuth
        /\ newRet.returned /\ ~newRet.p /\ newRet.err # NoErr
        /\ step.transport = DefaultTransport(newIss)
        /\ \A i \in SignIds : signPc[i] = "idle" /\ caLog[i] = <<>>

\* C2 witness: the sign request of the bootstrap failed
C2_Witness ==
    /\ bootstrap = "BootstrapFailed"
    /\ CallsOf(NewId, "sign") # {}
    /\ newRet.returned

\* New fetched the CA's configuration, and it declares client authentication
\* mandatory
ConfigSaysRequired ==
    /\ OkCallsOf(NewId, "version") # {}
    /\ caRequireClientAuth

\* every CA call of every Sign invocation went over the identity transport
\* the bootstrap installed, which is the transport of the provisioner
SignsUseIdentity ==
    /\ step.transport = IdentityTransport(DefaultTransport(newIss), boot.resp, boot.pk)
    /\ \A i \in SignIds : \A k \in DOMAIN caLog[i] :
          caLog[i][k].transport = step.transport

\* C3, as claimed: whenever the CA requires client authentication, a
\* provisioner New returned went through the identity bootstrap, and every CA
\* call of a Sign invocation uses the identity transport.
C3_AsClaimed ==
    (caRequireClientAuth /\ newRet.returned /\ newRet.p) =>
        /\ bootstrap = "Authenticated"
        /\ SignsUseIdentity

\* C3, amended: when New fetched the CA's configuration and it declares client
\* authentication mandatory, the provisioner New returns went through the
\* bootstrap exactly once (one token request, one sign request, transport
\* installed) before New returned, every CA call of a Sign invocation uses the
\* installed transport, and the transport is never replaced after New returned.
C3_BootstrapBeforeSign ==
    /\ [](ConfigSaysRequired /\ newRet.returned /\ newRet.p =>
            /\ bootstrap = "Authenticated"
            /\ Cardinality(OkCallsOf(NewId, "token")) = 1
            /\ Cardinality(OkCallsOf(NewId, "sign")) = 1
            /\ Len(caLog[NewId]) = 3
            /\ SignsUseIdentity)
    /\ [][newRet.returned => step' = step]_vars
    /\ [][step'.transport # step.transport =>
            ~newRet.returned /\ newRet'.returned /\ step.transport.kind = "tls"]_vars

\* C3 witness: a Sign invocation completed all its CA calls on a bootstrapped
\* provisioner
C3_Witness ==
    /\ ConfigSaysRequired
    /\ bootstrap = "Authenticated"
    /\ \E i \in SignIds : signPc[i] = "done" /\ Cardinality(DOMAIN caLog[i]) = 3

\* C4: every sign request of a Sign invocation carries a token minted in that
\* invocation for the subject and SANs derived from its request; a token is
\* sent in at most one sign request, in exactly one once its invocation has
\* returned; no invocation sends a token minted by another caller, and the
\* provisioner holds no token.
C4_TokenSingleUse ==
    /\ \A i \in SignIds : \A k \in CallsOf(i, "sign") :
          LET t == caLog[i][k].ott
              csr == pemDecode(signCr[i].Request).block.der.csr IN
          /\ t \in Minted(i)
          /\ t.sub = subjectOf(csr) /\ t.sans = sansOf(csr)
          /\ \A c \in Callers \ {i} : t \notin Minted(c)
    /\ \A c \in Callers : \A t \in Minted(c) :
          LET uses == {dk \in Callers \X (1..3) :
                          /\ dk[2] \in CallsOf(dk[1], "sign")
                          /\ caLog[dk[1]][dk[2]].ott = t} IN
          /\ Cardinality(uses) <= 1
          /\ (c \in SignIds /\ signPc[c] = "done") => Cardinality(uses) = 1
    /\ \A c \in Callers : Cardinality(Minted(c)) = Cardinality(OkCallsOf(c, "token"))
    /\ DOMAIN step = {"nil", "name", "transport"}

\* C4 witness: two invocations each sent a sign request with their own token
C4_Witness ==
    \E i \in SignIds : \E j \in SignIds \ {i} :
        /\ signPc[i] = "done" /\ signPc[j] = "done"
        /\ CallsOf(i, "sign") # {} /\ CallsOf(j, "sign") # {}
        /\ signCr[i].Request # signCr[j].Request

\* C5: a malformed request is always reported as such: whenever the request
\* given to Sign fails decoding or validation, the error Sign returns is the
\* decoder's error, whatever the CA answers.
C5_MalformedReported ==
    \A i \in SignIds :
        (signPc[i] = "done" /\ ~WellFormedRequest(signCr[i].Request)) =>
            signRet[i].err = decodeCSR(signCr[i].Request).err

\* C6: once the context given to a Sign invocation is cancelled, the
\* invocation makes no further CA call.
C6_NoCallAfterCancel ==
    [][\A i \in SignIds : ctxDone[i] => caLog'[i] = caLog[i]]_vars

\* C7: a Sign invocation sends at most one root fetch, one token request and
\* one sign request; a failed call is the last call of the invocation, the
\* invocation has returned, and its error is the error of that call.
C7_NoRetry ==
    \A i \in SignIds :
        /\ Cardinality(CallsOf(i, "roots")) <= 1
        /\ Cardinality(CallsOf(i, "token")) <= 1
        /\ Cardinality(CallsOf(i, "sign")) <= 1
        /\ \A k \in FailedCalls(i) :
              /\ k = Len(caLog[i])
              /\ signPc[i] = "done"
              /\ signRet[i].err = caLog[i][k].err
              /\ signRet[i].err \in CAErrors

\* C7 witness: the token request failed after a successful root fetch
C7_Witness ==
    \E i \in SignIds :
        /\ signPc[i] = "done"
        /\ CallsOf(i, "token") # {}
        /\ FailedCalls(i) = CallsOf(i, "token")

\* C8: the bootstrap is entered only if the configuration was fetched and
\* declares client authentication mandatory; if the fetch fails or client
\* authentication is not required, New makes no token request and no sign
\* request, leaves the transport as constructed and returns the provisioner
\* without error.
C8_BootstrapOnlyIfRequired ==
    /\ bootstrap # "Unauthenticated" => ConfigSaysRequired
    /\ (CallsOf(NewId, "version") # {} /\ ~ConfigSaysRequired) =>
          /\ Len(caLog[NewId]) = 1
          /\ step = NewStep(newIss)
          /\ newRet = [returned |-> TRUE, p |-> TRUE, err |-> NoErr]
          /\ bootstrap = "Unauthenticated"

\* C8 witness: the CA requires client authentication, the configuration fetch
\* failed, and New returned the provisioner
C8_Witness ==
    /\ caRequireClientAuth
    /\ FailedCalls(NewId) = CallsOf(NewId, "version")
    /\ FailedCalls(NewId) # {}
    /\ newRet.p

\* C9: decodeCSR returns a request if and only if the input is one PEM block
\* with nothing after it, of type CERTIFICATE REQUEST, that parses as a request
\* whose signature verifies; otherwise it returns an error and no request.
C9_DecodeIff ==
    dOut.called =>
        /\ (dOut.err = NoErr) <=> WellFormedRequest(dData)
        /\ (dOut.err = NoErr) <=> ~dOut.csr.nil
        /\ WellFormedRequest(dData) => dOut.csr = dData[Len(dData)].der.csr
        /\ ~WellFormedRequest(dData) => dOut.csr = NilCSR

\* C9 witness: a request preceded by other bytes was decoded
C9_Witness ==
    /\ dOut.called
    /\ dOut.err = NoErr
    /\ Len(dData) > 1

\* the first PEM block of the input has another type than CERTIFICATE REQUEST
WrongType(data) ==
    \E k \in 1..Len(data) :
        /\ data[k].pem /\ data[k].type # "CERTIFICATE REQUEST"
        /\ \A j \in 1..(k - 1) : ~data[j].pem

\* bytes follow the first PEM block of the input
TrailingBytes(data) ==
    \E k \in 1..(Len(data) - 1) : data[k].pem

\* C10, as claimed: every input whose block has a wrong type fails with the
\* type-mismatch error, and every input with bytes after its block fails with
\* the trailing-content error.
C10_AsClaimed ==
    dOut.called =>
        /\ WrongType(dData) => dOut.err = ErrNotRequest
        /\ TrailingBytes(dData) => dOut.err = ErrUnexpectedPEM
        /\ ErrNotRequest # ErrUnexpectedPEM

\* C10, amended: every input with bytes after its first PEM block fails with
\* the trailing-content error, whatever the type of the block; every input
\* whose block has a wrong type and nothing after it fails with the
\* type-mismatch error; the two errors are distinct.
C10_TypeAndTrailing ==
    dOut.called =>
        /\ TrailingBytes(dData) => dOut.err = ErrUnexpectedPEM
        /\ (WrongType(dData) /\ ~TrailingBytes(dData)) => dOut.err = ErrNotRequest
        /\ ErrNotRequest # ErrUnexpectedPEM

\* C10 witness: a block of a wrong type followed by more bytes was rejected
C10_Witness ==
    /\ dOut.called
    /\ WrongType(dData)
    /\ TrailingBytes(dData)
    /\ dOut.err = ErrUnexpectedPEM

\* one of the two names generateSubject passes over
LoopbackName(n) == n = "127.0.0.1" \/ n = "localhost"

\* C11: the subject is the common name when it is not empty; otherwise
\* "step-issuer-certificate" when there is no SAN, otherwise the first SAN that
\* is neither "127.0.0.1" nor "localhost", and the first SAN when all are.
C11_SubjectResolution ==
    xOut.called =>
        LET sans == xOut.sans
            n == Len(sans)
            others == {k \in 1..n : ~LoopbackName(sans[k])} IN
        /\ xCsr.CommonName # "" => xOut.subject = xCsr.CommonName
        /\ (xCsr.CommonName = "" /\ n = 0) => xOut.subject = "step-issuer-certificate"
        /\ (xCsr.CommonName = "" /\ others # {}) =>
              \E k \in others : /\ \A j \in others : k <= j
                                /\ xOut.subject = sans[k]
        /\ (xCsr.CommonName = "" /\ n > 0 /\ others = {}) => xOut.subject = sans[1]
        /\ (xCsr.CommonName = "" /\ sans = <<"127.0.0.1", "localhost">>) =>
              xOut.subject = "127.0.0.1"
        /\ (xCsr.CommonName = "" /\ sans = <<"127.0.0.1", "app.example.com">>) =>
              xOut.subject = "app.example.com"

\* C11 witness: no common name, and a loopback name before another name
C11_Witness ==
    /\ xOut.called
    /\ xCsr.CommonName = ""
    /\ xOut.sans = <<"127.0.0.1", "app.example.com">>
    /\ xOut.subject = "app.example.com"

\* the textual form of the addresses and URIs of the requests of SpecExtract
TextOfIP(ip) == IF ip = LoopbackIP THEN "127.0.0.1" ELSE "10.0.0.7"
TextOfURI(u) ==
    IF u = SpiffeURI THEN "spiffe://cluster.local/ns/app" ELSE "https://app.example.com/id"

\* C12: the SAN sequence is the DNS names, then the e-mail addresses, then the
\* IP addresses, then the URIs, each group in the request's order and entire;
\* its length is the sum of the lengths of the groups.
C12_SanOrder ==
    xOut.called =>
        LET sans == xOut.sans
            nd == Len(xCsr.DNSNames)
            ne == Len(xCsr.EmailAddresses)
            ni == Len(xCsr.IPAddresses)
            nu == Len(xCsr.URIs) IN
        /\ Len(sans) = nd + ne + ni + nu
        /\ \A k \in 1..nd : sans[k] = xCsr.DNSNames[k]
        /\ \A k \in 1..ne : sans[nd + k] = xCsr.EmailAddresses[k]
        /\ \A k \in 1..ni : sans[nd + ne + k] = TextOfIP(xCsr.IPAddresses[k])
        /\ \A k \in 1..nu : sans[nd + ne + ni + k] = TextOfURI(xCsr.URIs[k])

\* C12 witness: all four groups are present and a name occurs twice
C12_Witness ==
    /\ xOut.called
    /\ xCsr.DNSNames = <<"localhost", "localhost">>
    /\ xCsr.EmailAddresses # <<>> /\ xCsr.IPAddresses # <<>> /\ xCsr.URIs # <<>>
    /\ Len(xOut.sans) = 5

\* a certificate block holding the raw bytes of a certificate
CertBlock(cert) == [pem |-> TRUE, type |-> "CERTIFICATE", der |-> cert.Raw]

\* C13: a successful Sign returns a chain of exactly two certificate blocks,
\* the leaf and then the intermediate of the response to its own sign request,
\* and a root bundle of one certificate block per root its own root fetch
\* returned, in the CA's order.
C13_ChainAndBundle ==
    \A i \in SignIds :
        (signPc[i] = "done" /\ signRet[i].err = NoErr) =>
            /\ Cardinality(OkCallsOf(i, "sign")) = 1
            /\ Cardinality(OkCallsOf(i, "roots")) = 1
            /\ \A k \in OkCallsOf(i, "sign") :
                  /\ Len(signRet[i].certPem) = 2
                  /\ signRet[i].certPem[1] = CertBlock(caLog[i][k].resp.ServerPEM)
                  /\ signRet[i].certPem[2] = CertBlock(caLog[i][k].resp.CaPEM)
                  /\ caLog[i][k].resp.ServerPEM # caLog[i][k].resp.CaPEM
            /\ \A k \in OkCallsOf(i, "roots") :
                  /\ Len(signRet[i].caPem) = Len(caLog[i][k].roots)
                  /\ \A j \in 1..Len(caLog[i][k].roots) :
                        signRet[i].caPem[j] = CertBlock(caLog[i][k].roots[j])

\* C13 witness: two invocations succeeded on a CA with several roots
C13_Witness ==
    /\ Len(caRoots) > 1
    /\ \A i \in SignIds : signPc[i] = "done" /\ signRet[i].err = NoErr

\* C14: whenever Sign returns without error, the root bundle it returns holds
\* one certificate block or more.
C14_RootBundleNonEmpty ==
    \A i \in SignIds :
        (signPc[i] = "done" /\ signRet[i].err = NoErr) => Len(signRet[i].caPem) >= 1

\* C15: the sign request carries the requested duration as its not-after field
\* when the request supplies a duration, and the zero value when it supplies
\* none; a not-after field other than the zero value is sent only for a
\* request that supplies a duration.
C15_NotAfter ==
    \A i \in SignIds : \A k \in CallsOf(i, "sign") :
        LET d == signCr[i].Duration
            na == caLog[i][k].notAfter IN
        /\ ~d.nil => na = [t |-> 0, d |-> d.Duration]
        /\ d.nil => na = ZeroTimeDuration
        /\ na # ZeroTimeDuration => ~d.nil

\* C15 witness: a sign request was sent for a request with a duration
C15_Witness ==
    \E i \in SignIds :
        /\ CallsOf(i, "sign") # {}
        /\ ~signCr[i].Duration.nil
        /\ signCr[i].Duration.Duration > 0

\* the kinds of the calls caller c made to the CA, in order
OpsOf(c) == [k \in DOMAIN caLog[c] |-> caLog[c][k].op]

\* s is a prefix of t
IsPrefix(s, t) == Len(s) <= Len(t) /\ \A k \in 1..Len(s) : s[k] = t[k]

C18_SignFrame ==
    [][/\ (signVars' # signVars \/ \E i \in SignIds : caLog'[i] # caLog[i]) =>
              step' = step /\ newIss' = newIss
       /\ (\E i \in SignIds : signPc[i] # "idle") => step' = step
       /\ (~step.nil /\ step' # step) =>
              /\ newPc = "bootTransport"
              /\ ~newRet.returned
              /\ step.transport = DefaultTransport(newIss)
              /\ step'.name = step.name
              /\ step'.transport = IdentityTransport(step.transport, boot.resp, boot.pk)
       /\ \A i \in SignIds : signPc'[i] # signPc[i] =>
              \A j \in SignIds \ {i} :
                  /\ signCr'[j] = signCr[j]
                  /\ signLocals'[j] = signLocals[j]
                  /\ signRet'[j] = signRet[j]
                  /\ caLog'[j] = caLog[j]
      ]_vars

\* C18 witness: on a provisioner with the identity transport one invocation
\* succeeded and another failed
C18_Witness ==
    /\ bootstrap = "Authenticated"
    /\ step.transport = IdentityTransport(DefaultTransport(newIss), boot.resp, boot.pk)
    /\ \E i, j \in SignIds :
          /\ signPc[i] = "done" /\ signRet[i].err = NoErr
          /\ signPc[j] = "done" /\ signRet[j].err # NoErr

\* the order of the bootstrap in a state
BootstrapOrder ==
    LET log == caLog[NewId]
        own == CreateCertificateRequest(step.name) IN
    /\ IsPrefix(OpsOf(NewId), <<"version", "token", "sign">>)
    /\ bootstrap = "Unauthenticated" => Len(log) <= 1 /\ boot = NilBoot
    /\ bootstrap # "Unauthenticated" =>
          log # <<>> /\ log[1].err = NoErr /\ caRequireClientAuth
    /\ \A k \in FailedCalls(NewId) \ {1} :
          k = Len(log) /\ bootstrap = "BootstrapFailed"
    /\ boot.csr # NilCSR =>
          boot.csr = own.csr /\ boot.pk = own.pk /\ boot.csr.CommonName = step.name
    /\ \A k \in CallsOf(NewId, "token") :
          /\ boot.csr # NilCSR
          /\ log[k].subject = step.name
          /\ log[k].sans = <<>>
    /\ \A k \in OkCallsOf(NewId, "token") : boot.token = log[k].token
    /\ \A k \in CallsOf(NewId, "sign") :
          /\ log[k - 1].err = NoErr
          /\ log[k].csr = boot.csr
          /\ log[k].ott = log[k - 1].token
    /\ \A k \in OkCallsOf(NewId, "sign") : boot.resp = log[k].resp
    /\ bootstrap = "Authenticated" <=>
          /\ OkCallsOf(NewId, "sign") # {}
          /\ step.transport = IdentityTransport(DefaultTransport(newIss), boot.resp, boot.pk)
    /\ bootstrap # "Authenticated" =>
          step.nil \/ step.transport = DefaultTransport(newIss)
    /\ bootstrap = "Authenticated" => newRet = [returned |-> TRUE, p |-> TRUE, err |-> NoErr]
    /\ bootstrap = "BootstrapFailed" =>
          newRet.returned /\ ~newRet.p /\ newRet.err # NoErr
    /\ bootstrap = "Bootstrapping" <=> newPc \in {"bootCSR", "bootToken", "bootSign", "bootTransport"}

\* C19: the bootstrap makes the certificate request for the provisioner's own
\* name, then requests a token for that name without SANs, then sends a sign
\* request with that certificate request and that token, then derives the
\* transport from the response and the key and installs it; a step runs once
\* and only after the steps before it succeeded, a failure is the last step,
\* and a bootstrap that began ends as Authenticated with the transport
\* installed or as BootstrapFailed with the transport not installed.
C19_BootstrapOrder ==
    /\ []BootstrapOrder
    /\ (bootstrap = "Bootstrapping") ~> (bootstrap \in {"Authenticated", "BootstrapFailed"})
    /\ [][(bootstrap = "Authenticated" \/ bootstrap = "BootstrapFailed") =>
              (bootstrap' = bootstrap /\ step' = step /\ caLog'[NewId] = caLog[NewId])
         ]_vars

\* C19 witness: a bootstrap failed at its sign request, after the certificate
\* request and the token
C19_Witness ==
    /\ bootstrap = "BootstrapFailed"
    /\ Len(caLog[NewId]) = 3
    /\ caLog[NewId][3].err # NoErr
    /\ boot.token # NilToken
    /\ step.transport = DefaultTransport(newIss)

\* the Loads that returned
LoadsDone == {c \in RegCallers : regCall[c].op = "Load" /\ regCall[c].pc = "done"}

\* the calls of Store for the identifier of call c that began before c
\* returned, that returned before c returned, and that returned before c began
StoresBegun(c) ==
    {s \in RegCallers : /\ regCall[s].op = "Store"
                        /\ regCall[s].id = regCall[c].id
                        /\ regCall[s].tInv < regCall[c].tRet}
StoresDone(c) ==
    {s \in StoresBegun(c) : regCall[s].pc = "done" /\ regCall[s].tRet < regCall[c].tRet}
StoresBefore(c) ==
    {s \in StoresBegun(c) : regCall[s].pc = "done" /\ regCall[s].tRet < regCall[c].tInv}

\* C16 as claimed: a Load returns false and no provisioner when no Store for
\* its identifier has completed, and otherwise true and a provisioner passed
\* to a Store for its identifier.
C16_AsClaimed ==
    \A c \in LoadsDone :
        IF StoresDone(c) = {}
        THEN regCall[c].ret = [p |-> NilStepPtr, found |-> FALSE]
        ELSE /\ regCall[c].ret.found
             /\ \E s \in StoresBegun(c) : regCall[c].ret.p = regCall[s].p

\* C16: a Load returns false and no provisioner when no Store for its
\* identifier began before the Load returned; it returns true when a Store
\* for its identifier returned before the Load began; whenever it returns
\* true, the provisioner is one passed to a Store for its identifier that
\* began before the Load returned; when every such Store returned before the
\* Load began and one of them began after all the others returned, the
\* provisioner is the one passed to that Store; and a step changes the entry
\* of an identifier only if it is the map operation of a Store for it.
C16_Registry ==
    /\ [](\A c \in LoadsDone :
            /\ StoresBegun(c) = {} => regCall[c].ret = [p |-> NilStepPtr, found |-> FALSE]
            /\ StoresBefore(c) # {} => regCall[c].ret.found
            /\ regCall[c].ret.found =>
                  \E s \in StoresBegun(c) : regCall[c].ret.p = regCall[s].p
            /\ ~regCall[c].ret.found => regCall[c].ret.p = NilStepPtr
            /\ \A s \in StoresBefore(c) :
                  (/\ StoresBegun(c) = StoresBefore(c)
                   /\ \A t \in StoresBefore(c) \ {s} : regCall[t].tRet < regCall[s].tInv)
                  => regCall[c].ret = [p |-> regCall[s].p, found |-> TRUE])
    /\ [][\A id \in RegistryIds :
              (collection'[id] # collection[id]) =>
                  \E s \in RegCallers :
                      /\ regCall[s].op = "Store"
                      /\ regCall[s].id = id
                      /\ regCall[s].pc = "called"
                      /\ regCall'[s].pc = "mapped"
                      /\ collection'[id] = Entry(regCall[s].p)
         ]_vars

\* C16 witness: after two calls of Store for one identifier, one after the
\* other with different provisioners, a Load returned the later provisioner
C16_Witness ==
    \E c \in LoadsDone : \E s, t \in StoresBefore(c) :
        /\ regCall[s].tRet < regCall[t].tInv
        /\ regCall[s].p # regCall[t].p
        /\ regCall[c].ret = [p |-> regCall[t].p, found |-> TRUE]

====
